---- MODULE Spec2Model ----
(***************************************************************************)
(* Model of src/main.py: the WebSocket duplex OPUS audio client.           *)
(*                                                                         *)
(* Threads of the program:                                                 *)
(*   - the main thread: __main__ -> AudioClient.run -> ws.run_forever,     *)
(*     inside which the transport invokes _on_open / _on_message /         *)
(*     _on_error / _on_close;                                              *)
(*   - one _send_loop thread and one _keepalive thread per _on_open call;  *)
(*   - the audio device's capture thread, which calls _input_callback.     *)
(* The transport (websocket-client), the codec (opuslib) and the audio     *)
(* device (pyaudio) are external: their outcomes are nondeterministic.     *)
(***************************************************************************)
EXTENDS Integers, Sequences, FiniteSets, TLC

\* ---- program constants ----
max_retries == 5
BackoffCap == 30

\* ---- bounds of the model ----
\* capacity of input_queue / output_buffer (MAX_QUEUE_SIZE is 30 in the
\* source; the model keeps the name and scales the capacity down)
MAX_QUEUE_SIZE == 2
\* bytes in one decoded PCM frame (CHUNK * 2 = 2880 in the source)
FrameBytes == 2
\* number of capture callbacks delivered by the device
MaxFrames == 3
\* number of inbound binary messages
MaxMsgs == 2
\* number of _on_open invocations (each starts one pair of loop threads)
MaxOpens == 2
\* number of capture callbacks delivered while the connection lifecycle is explored
LifeFrames == 1
\* the frame period FRAME_MS / 1000 s, in clock ticks (60 ms in the source)
FramePeriod == 2
\* the longest time, in ticks, that one codec.encode or one ws.send call takes
MaxWork == 1
\* the clock stops at MaxTime
MaxTime == 8

Threads == 1..MaxOpens

VARIABLES
    mainPc,         \* position of the main thread in __main__ / run()
    retries,        \* run(): local variable retries
    delays,         \* history: the delays passed to time.sleep in run()
    sock,           \* state of the transport socket owned by self.ws
    is_running,     \* AudioClient.is_running
    opens,          \* number of _on_open invocations so far
    attempts,       \* history: number of ws.run_forever invocations
    sessionStart,   \* history: Len(sent) at the latest _on_open
    sendPc,         \* position of each _send_loop thread
    sendFrame,      \* the encoded frame a _send_loop thread holds (0: none)
    kaPc,           \* position of each _keepalive thread
    input_queue,    \* AudioIO.input_queue (queue.Queue(maxsize))
    offered,        \* number of _input_callback invocations (frame ids)
    taken,          \* number of frames returned by get_input_frame
    capPc,          \* capture thread: "idle", or "blocked" inside put()
    output_buffer,  \* AudioIO.output_buffer (deque(maxlen))
    outOffered,     \* history: entries given to output_buffer.extend since the last clear
    received,       \* number of inbound binary messages so far
    played,         \* history: message ids written to output_stream
    decoded,        \* history: message ids that codec.decode turned into a frame
    writeFailed,    \* history: message ids whose output_stream.write raised OSError
    raised,         \* history: an exception has left _handle_control
    stopHandled,    \* history: the latest inbound message was {"type": "tts", "state": "stop"}
    releaseCount,   \* number of _cleanup executions (AudioIO.release, then ws.close)
    sent,           \* history: frames sent as binary messages
    openFailed,     \* history: an Open connection was reported failed/closed
    stopWhileOpen,  \* history: the interrupt arrived while the connection was Open
    now,            \* time.time(), in clock ticks
    last_send,      \* _send_loop: local variable last_send of each thread
    due,            \* the time at which the timed wait or call of each _send_loop thread ends
    startTime,      \* history: the time at which each _send_loop started
    sendTimes,      \* history: the times of the successful ws.send calls of each _send_loop
    skipped         \* history: an iteration of the _send_loop ended without a send

lifeVars == <<mainPc, retries, delays, sock, is_running, opens, openFailed, stopWhileOpen,
              attempts, sessionStart>>
loopVars == <<sendPc, sendFrame, kaPc, sent>>
inVars == <<input_queue, offered, taken, capPc>>
outVars == <<output_buffer, outOffered, received, played, decoded, writeFailed, raised,
             stopHandled>>
resVars == <<releaseCount>>
paceVars == <<now, last_send, due, startTime, sendTimes, skipped>>
vars == <<lifeVars, loopVars, inVars, outVars, resVars, paceVars>>

\* ---- pure helpers ----
Min(a, b) == IF a < b THEN a ELSE b

RECURSIVE Pow2(_)
Pow2(n) == IF n = 0 THEN 1 ELSE 2 * Pow2(n - 1)

\* the delay without the cap
Backoff_NoCap(r) == Pow2(r)

\* run(): delay = min(2 ** retries, 30)
Backoff(r) == Min(Pow2(r), BackoffCap)

\* the last n entries of s (all of s when it is shorter)
LastN(s, n) == IF Len(s) <= n THEN s ELSE SubSeq(s, Len(s) - n + 1, Len(s))

\* a deque without maxlen
DequeExtend_NoMaxlen(d, items) == d \o items

\* deque(maxlen=MAX_QUEUE_SIZE).extend(items): append each item on the right,
\* discarding from the left once the deque is full
DequeExtend(d, items) == LastN(d \o items, MAX_QUEUE_SIZE)

\* the PCM bytes decoded from inbound message k: FrameBytes distinct entries
PcmOf(k) == [i \in 1..FrameBytes |-> (k - 1) * FrameBytes + i]

\* ---- initial state: after AudioClient() has been constructed ----
Init ==
    /\ mainPc = "loop"
    /\ retries = 0
    /\ delays = <<>>
    /\ sock = "none"
    /\ is_running = FALSE
    /\ opens = 0
    /\ attempts = 0
    /\ sessionStart = 0
    /\ openFailed = FALSE
    /\ stopWhileOpen = FALSE
    /\ sendPc = [t \in Threads |-> "unborn"]
    /\ sendFrame = [t \in Threads |-> 0]
    /\ kaPc = [t \in Threads |-> "unborn"]
    /\ sent = <<>>
    /\ input_queue = <<>>
    /\ offered = 0
    /\ taken = 0
    /\ capPc = "idle"
    /\ output_buffer = <<>>
    /\ outOffered = <<>>
    /\ received = 0
    /\ played = <<>>
    /\ decoded = <<>>
    /\ writeFailed = {}
    /\ raised = FALSE
    /\ stopHandled = FALSE
    /\ releaseCount = 0
    /\ now = 0
    /\ last_send = [t \in Threads |-> 0]
    /\ due = [t \in Threads |-> 0]
    /\ startTime = [t \in Threads |-> 0]
    /\ sendTimes = [t \in Threads |-> <<>>]
    /\ skipped = [t \in Threads |-> FALSE]

\* ---- AudioIO ----

\* _input_callback: self.input_queue.put(in_data) with the default block=True.
\* With room in the queue the frame is enqueued; on a full queue put() waits
\* inside the callback until a consumer frees a slot.
InputCallback ==
    /\ capPc = "idle"
    /\ releaseCount = 0
    /\ offered < MaxFrames
    /\ offered' = offered + 1
    /\ IF Len(input_queue) < MAX_QUEUE_SIZE
       THEN /\ input_queue' = Append(input_queue, offered + 1)
            /\ capPc' = "idle"
       ELSE /\ input_queue' = input_queue
            /\ capPc' = "blocked"
    /\ UNCHANGED <<paceVars, taken, lifeVars, loopVars, outVars, resVars>>

\* the blocked put() completes once the queue has a free slot
InputCallbackResume ==
    /\ capPc = "blocked"
    /\ Len(input_queue) < MAX_QUEUE_SIZE
    /\ input_queue' = Append(input_queue, offered)
    /\ capPc' = "idle"
    /\ UNCHANGED <<paceVars, offered, taken, lifeVars, loopVars, outVars, resVars>>

\* get_input_frame: input_queue.get_nowait(), None on queue.Empty
get_input_frame(q) == IF q = <<>> THEN 0 ELSE Head(q)

\* play_output that puts the newest block first
PlayOutput_Reorder(k, writeOk) ==
    /\ output_buffer' = DequeExtend(output_buffer, PcmOf(k))
    /\ outOffered' = outOffered \o PcmOf(k)
    /\ IF writeOk /\ releaseCount = 0
       THEN played' = <<k>> \o played /\ writeFailed' = writeFailed
       ELSE played' = played /\ writeFailed' = writeFailed \cup {k}

\* play_output(pcm_data): output_buffer.extend(pcm_data), then
\* output_stream.write(pcm_data); an OSError from write is logged
PlayOutput(k, writeOk) ==
    /\ output_buffer' = DequeExtend(output_buffer, PcmOf(k))
    /\ outOffered' = outOffered \o PcmOf(k)
    /\ IF writeOk /\ releaseCount = 0
       THEN played' = Append(played, k) /\ writeFailed' = writeFailed
       ELSE played' = played /\ writeFailed' = writeFailed \cup {k}

\* ---- AudioClient callbacks, run on the main thread inside run_forever ----

\* _cleanup: self.audio.release(), then self.ws.close()
Cleanup ==
    /\ releaseCount' = releaseCount + 1
    /\ sock' = "closed"

\* _on_open: is_running = True, start a _send_loop (which begins with
\* last_send = time.time()) and a _keepalive thread
OnOpen ==
    /\ mainPc = "run_forever"
    /\ sock = "connecting"
    /\ opens < MaxOpens
    /\ opens' = opens + 1
    /\ sock' = "connected"
    /\ is_running' = TRUE
    /\ openFailed' = FALSE
    /\ sendPc' = [sendPc EXCEPT ![opens + 1] = "while"]
    /\ kaPc' = [kaPc EXCEPT ![opens + 1] = "while"]
    /\ last_send' = [last_send EXCEPT ![opens + 1] = now]
    /\ startTime' = [startTime EXCEPT ![opens + 1] = now]
    /\ sessionStart' = Len(sent)
    /\ UNCHANGED <<now, due, sendTimes, skipped, mainPc, retries, delays, stopWhileOpen, attempts,
                   sendFrame, sent, inVars, outVars, resVars>>

\* _on_message with a bytes payload -> _handle_audio: decode, and play the
\* frame when decode returned one (decode returns None on OpusError)
OnAudio ==
    /\ mainPc = "run_forever"
    /\ sock = "connected"
    /\ received < MaxMsgs
    /\ received' = received + 1
    /\ \E decodeOk \in BOOLEAN, writeOk \in BOOLEAN :
          IF decodeOk
          THEN /\ decoded' = Append(decoded, received + 1)
               /\ PlayOutput(received + 1, writeOk)
          ELSE UNCHANGED <<output_buffer, outOffered, played, decoded, writeFailed>>
    /\ stopHandled' = FALSE
    /\ UNCHANGED <<paceVars, raised, lifeVars, loopVars, inVars, resVars>>

\* the kinds of inbound text message
ControlKinds == {"bad_json", "non_object", "tts_stop", "tts_other", "tts_nostate", "other"}

\* the text messages that make _handle_control raise: data.get on JSON that
\* is not an object (AttributeError), data['state'] on a tts message without
\* a state (KeyError); only json.JSONDecodeError is caught
ControlRaises(kind) == kind \in {"non_object", "tts_nostate"}

\* _handle_control that leaves the output buffer alone
HandleControl_NoClear(kind) ==
    /\ raised' = (raised \/ ControlRaises(kind))
    /\ stopHandled' = (kind = "tts_stop")
    /\ UNCHANGED <<output_buffer, outOffered, received, played, decoded, writeFailed>>

\* _handle_control: json.loads, then output_buffer.clear() on
\* {"type": "tts", "state": "stop"}
HandleControl(kind) ==
    /\ IF kind = "tts_stop"
       THEN output_buffer' = <<>> /\ outOffered' = <<>>
       ELSE UNCHANGED <<output_buffer, outOffered>>
    /\ raised' = (raised \/ ControlRaises(kind))
    /\ stopHandled' = (kind = "tts_stop")
    /\ UNCHANGED <<received, played, decoded, writeFailed>>

\* _on_message with a text payload of the given kind -> _handle_control
OnControlKind(kind) ==
    /\ mainPc = "run_forever"
    /\ sock = "connected"
    /\ HandleControl(kind)
    /\ UNCHANGED <<paceVars, lifeVars, loopVars, inVars, resVars>>

\* _on_message with a text payload
OnControl == \E kind \in ControlKinds : OnControlKind(kind)

\* _on_error: is_running = False, nothing else.  The transport reports the
\* error; whether its socket survives the error is the transport's business.
OnError ==
    /\ mainPc = "run_forever"
    /\ sock \in {"connecting", "connected"}
    /\ is_running' = FALSE
    /\ openFailed' = (openFailed \/ sock = "connected")
    /\ \E keep \in BOOLEAN :
          sock' = IF keep /\ sock = "connected" THEN "connected" ELSE "failed"
    /\ UNCHANGED <<paceVars, mainPc, retries, delays, opens, stopWhileOpen, attempts, sessionStart,
                   loopVars, inVars, outVars, resVars>>

\* _on_close: is_running = False, then _cleanup()
OnClose ==
    /\ mainPc = "run_forever"
    /\ sock \in {"connected", "failed"}
    /\ is_running' = FALSE
    /\ openFailed' = (openFailed \/ sock = "connected")
    /\ Cleanup
    /\ UNCHANGED <<paceVars, mainPc, retries, delays, opens, stopWhileOpen, attempts, sessionStart,
                   loopVars, inVars, outVars>>

\* run_forever(reconnect=3): after a reported error the transport connects
\* again inside the same run_forever call
Reconnect ==
    /\ mainPc = "run_forever"
    /\ sock = "failed"
    /\ sock' = "connecting"
    /\ UNCHANGED <<paceVars, mainPc, retries, delays, is_running, opens, openFailed, stopWhileOpen, attempts, sessionStart,
                   loopVars, inVars, outVars, resVars>>

\* ---- run() ----

\* the while condition off by one: retries <= max_retries
RunLoop_OffByOne ==
    /\ mainPc = "loop"
    /\ IF retries <= max_retries
       THEN /\ mainPc' = "run_forever"
            /\ sock' = "connecting"
            /\ attempts' = attempts + 1
       ELSE /\ mainPc' = "exhausted"
            /\ sock' = sock
            /\ attempts' = attempts
    /\ UNCHANGED <<paceVars, retries, delays, is_running, opens, openFailed, stopWhileOpen, sessionStart,
                   loopVars, inVars, outVars, resVars>>

\* while retries < max_retries: enter ws.run_forever(...);
\* the else branch of the while logs that the retries are exhausted
RunLoop ==
    /\ mainPc = "loop"
    /\ IF retries < max_retries
       THEN /\ mainPc' = "run_forever"
            /\ sock' = "connecting"
            /\ attempts' = attempts + 1
       ELSE /\ mainPc' = "exhausted"
            /\ sock' = sock
            /\ attempts' = attempts
    /\ UNCHANGED <<paceVars, retries, delays, is_running, opens, openFailed, stopWhileOpen, sessionStart,
                   loopVars, inVars, outVars, resVars>>

\* run_forever returns normally: break, run() returns
RunForeverReturn ==
    /\ mainPc = "run_forever"
    /\ sock \in {"failed", "closed"}
    /\ mainPc' = "returned"
    /\ UNCHANGED <<paceVars, retries, delays, sock, is_running, opens, openFailed, stopWhileOpen, attempts, sessionStart,
                   loopVars, inVars, outVars, resVars>>

\* run_forever raises an Exception: retries += 1,
\* delay = min(2 ** retries, 30), time.sleep(delay) begins
RunForeverRaise ==
    /\ mainPc = "run_forever"
    /\ sock \in {"connecting", "failed", "closed"}
    /\ retries' = retries + 1
    /\ delays' = Append(delays, Backoff(retries + 1))
    /\ mainPc' = "sleep"
    /\ UNCHANGED <<paceVars, sock, is_running, opens, openFailed, stopWhileOpen, attempts, sessionStart,
                   loopVars, inVars, outVars, resVars>>

\* time.sleep(delay) returns; back to the while condition
SleepDone ==
    /\ mainPc = "sleep"
    /\ mainPc' = "loop"
    /\ UNCHANGED <<paceVars, retries, delays, sock, is_running, opens, openFailed, stopWhileOpen, attempts, sessionStart,
                   loopVars, inVars, outVars, resVars>>

\* __main__: KeyboardInterrupt leaves run() (except Exception does not catch
\* it); the handler calls client._cleanup() and logs
Interrupt ==
    /\ mainPc \in {"loop", "run_forever", "sleep"}
    /\ mainPc' = "stopped"
    /\ stopWhileOpen' = (sock = "connected" /\ is_running)
    /\ Cleanup
    /\ UNCHANGED <<paceVars, retries, delays, is_running, opens, openFailed, attempts, sessionStart,
                   loopVars, inVars, outVars>>

\* ---- _send_loop ----

\* while self.is_running
SendLoopCheck(t) ==
    /\ sendPc[t] = "while"
    /\ sendPc' = [sendPc EXCEPT ![t] = IF is_running THEN "pace" ELSE "done"]
    /\ UNCHANGED <<paceVars, sendFrame, kaPc, sent, lifeVars, inVars, outVars, resVars>>

\* after the pacing sleep: get_input_frame, then codec.encode (None on
\* OpusError); with no frame or no encoding the iteration ends
SendLoopTake(t) ==
    /\ sendPc[t] = "pace"
    /\ LET f == get_input_frame(input_queue) IN
       IF f = 0
       THEN /\ sendPc' = [sendPc EXCEPT ![t] = "while"]
            /\ UNCHANGED <<sendFrame, input_queue, taken>>
       ELSE /\ input_queue' = Tail(input_queue)
            /\ taken' = taken + 1
            /\ \E encodeOk \in BOOLEAN :
                  IF encodeOk
                  THEN /\ sendPc' = [sendPc EXCEPT ![t] = "send"]
                       /\ sendFrame' = [sendFrame EXCEPT ![t] = f]
                  ELSE /\ sendPc' = [sendPc EXCEPT ![t] = "while"]
                       /\ UNCHANGED sendFrame
    /\ UNCHANGED <<paceVars, kaPc, sent, offered, capPc, lifeVars, outVars, resVars>>

\* self.ws.send(opus_frame, OPCODE_BINARY) succeeds
SendLoopSendOk(t) ==
    /\ sendPc[t] = "send"
    /\ sock = "connected"
    /\ sent' = Append(sent, sendFrame[t])
    /\ sendFrame' = [sendFrame EXCEPT ![t] = 0]
    /\ sendPc' = [sendPc EXCEPT ![t] = "while"]
    /\ UNCHANGED <<paceVars, kaPc, lifeVars, inVars, outVars, resVars>>

\* self.ws.send raises: except Exception logs and breaks out of the loop
SendLoopSendFail(t) ==
    /\ sendPc[t] = "send"
    /\ sendFrame' = [sendFrame EXCEPT ![t] = 0]
    /\ sendPc' = [sendPc EXCEPT ![t] = "done"]
    /\ UNCHANGED <<paceVars, kaPc, sent, lifeVars, inVars, outVars, resVars>>

\* ---- _keepalive ----

\* while self.is_running: enter time.sleep(self.ping_interval)
KeepaliveCheck(t) ==
    /\ kaPc[t] = "while"
    /\ kaPc' = [kaPc EXCEPT ![t] = IF is_running THEN "sleep" ELSE "done"]
    /\ UNCHANGED <<paceVars, sendPc, sendFrame, sent, lifeVars, inVars, outVars, resVars>>

\* the sleep is over; self.ws.send("PING", OPCODE_PING) succeeds
KeepalivePingOk(t) ==
    /\ kaPc[t] = "sleep"
    /\ sock = "connected"
    /\ kaPc' = [kaPc EXCEPT ![t] = "while"]
    /\ UNCHANGED <<paceVars, sendPc, sendFrame, sent, lifeVars, inVars, outVars, resVars>>

\* the sleep is over; self.ws.send raises: the exception is logged as a
\* warning and the loop goes on
KeepalivePingFail(t) ==
    /\ kaPc[t] = "sleep"
    /\ kaPc' = [kaPc EXCEPT ![t] = "while"]
    /\ UNCHANGED <<paceVars, sendPc, sendFrame, sent, lifeVars, inVars, outVars, resVars>>

\* the steps of the loop threads
LoopStep ==
    \/ \E t \in Threads : SendLoopCheck(t)
    \/ \E t \in Threads : SendLoopTake(t)
    \/ \E t \in Threads : SendLoopSendOk(t)
    \/ \E t \in Threads : SendLoopSendFail(t)
    \/ \E t \in Threads : KeepaliveCheck(t)
    \/ \E t \in Threads : KeepalivePingOk(t)
    \/ \E t \in Threads : KeepalivePingFail(t)

\* The connection lifecycle: every outcome of run_forever, every callback
\* order, the interrupt, the loop threads.  The peer sends no messages and
\* the device delivers LifeFrames capture blocks.
Next ==
    \/ (offered < LifeFrames /\ InputCallback)
    \/ OnOpen
    \/ OnError
    \/ OnClose
    \/ Reconnect
    \/ RunLoop
    \/ RunForeverReturn
    \/ RunForeverRaise
    \/ SleepDone
    \/ Interrupt
    \/ LoopStep

Spec == Init /\ [][Next]_vars

\* The audio paths: capture, pacer takes, inbound audio and control messages
\* during one run_forever call that connects once and ends by returning or
\* by the interrupt.
NextAudio ==
    \/ InputCallback
    \/ InputCallbackResume
    \/ OnAudio
    \/ OnControl
    \/ OnOpen
    \/ OnError
    \/ OnClose
    \/ RunLoop
    \/ RunForeverReturn
    \/ Interrupt
    \/ LoopStep

SpecAudio == Init /\ [][NextAudio]_vars

\* ---- loop threads that are alive ----
AliveSend == {t \in Threads : sendPc[t] \in {"while", "pace", "send"}}
AliveKeepalive == {t \in Threads : kaPc[t] \in {"while", "sleep"}}

\* a step in which a loop thread calls self.ws.send
TransportSendCall ==
    \E t \in Threads :
        \/ SendLoopSendOk(t)
        \/ SendLoopSendFail(t)
        \/ KeepalivePingOk(t)
        \/ KeepalivePingFail(t)

\* a step in which a message of a loop thread goes out on the transport
TransportSendDone ==
    \E t \in Threads : SendLoopSendOk(t) \/ KeepalivePingOk(t)

\* C1: in every reachable state at most one _send_loop thread and at most
\* one _keepalive thread are alive, and while a connection attempt is under
\* way no loop thread started by an earlier _on_open is still alive.
C1_OneLoopPairPerConnection ==
    /\ Cardinality(AliveSend) <= 1
    /\ Cardinality(AliveKeepalive) <= 1
    /\ sock = "connecting" => (AliveSend = {} /\ AliveKeepalive = {})

\* C2: after a stop (KeyboardInterrupt -> _cleanup) issued while Open has
\* returned, no _send_loop and no _keepalive thread is alive, and no loop
\* thread calls ws.send any more.
C2_StopTerminatesLoops ==
    /\ [](stopWhileOpen => (AliveSend = {} /\ AliveKeepalive = {}))
    /\ [][stopWhileOpen => ~TransportSendCall]_vars

\* C3: cleanup never runs more than once, and when the engine has ended
\* (run() returned, the retries are exhausted, or it was stopped) cleanup has
\* run exactly once.
C3_CleanupExactlyOnce ==
    /\ releaseCount <= 1
    /\ mainPc \in {"returned", "exhausted", "stopped"} => releaseCount = 1

\* C4: when an Open connection has failed with fewer than max_retries
\* attempts used, the engine does not give up: run() has not returned, so a
\* new connection attempt can still begin.
C4_ReconnectsAfterOpenFailure ==
    (openFailed /\ retries < max_retries) => mainPc # "returned"

\* C5: the delays slept by run() are 2, 4, 8, 16, 30 in that order, one per
\* failure; after the fifth failure run() is in its terminal state with all
\* five delays slept, and from there it starts no connection attempt.
C5_BackoffSchedule ==
    /\ [](/\ Len(delays) = retries
          /\ \A i \in 1..Len(delays) : delays[i] = <<2, 4, 8, 16, 30>>[i]
          /\ mainPc = "exhausted" => delays = <<2, 4, 8, 16, 30>>)
    /\ [][mainPc = "exhausted" => (mainPc' = "exhausted" /\ sock' = sock)]_vars

\* C5 witness: five failures in a row without any open, then the terminal state
C5_Witness ==
    /\ mainPc = "exhausted"
    /\ opens = 0
    /\ retries = max_retries

\* C6: while Open, a transport-reported error and a failed keepalive ping
\* both leave is_running false and both run the cleanup.
C6_SingleFailurePath ==
    [][((sock = "connected" /\ is_running) /\
        (OnError \/ \E t \in Threads : KeepalivePingFail(t)))
       => (~is_running' /\ releaseCount' = releaseCount + 1)]_vars

\* C7: no message of _send_loop or _keepalive goes out on the transport
\* while is_running is false.
C7_NoSendOutsideOpen ==
    [][TransportSendDone => is_running]_vars

\* C8: the input queue and the output buffer never hold more than
\* MAX_QUEUE_SIZE entries.
C8_QueuesBounded ==
    /\ Len(input_queue) <= MAX_QUEUE_SIZE
    /\ Len(output_buffer) <= MAX_QUEUE_SIZE

\* C8 witness: a capture callback arrived on a full input queue, and more
\* than MAX_QUEUE_SIZE entries were given to the output buffer
C8_Witness ==
    /\ Len(input_queue) = MAX_QUEUE_SIZE
    /\ offered > MAX_QUEUE_SIZE
    /\ Len(output_buffer) = MAX_QUEUE_SIZE
    /\ Len(outOffered) > MAX_QUEUE_SIZE

\* C9: the capture callback never waits for a consumer.
C9_OfferNeverBlocks ==
    capPc = "idle"

\* C10: after more than MAX_QUEUE_SIZE offers with no take, each queue holds
\* exactly the first MAX_QUEUE_SIZE items offered, in order, and the later
\* ones were dropped.
C10_FirstArrivalsRetained ==
    /\ (taken = 0 /\ offered > MAX_QUEUE_SIZE) =>
          (input_queue = [i \in 1..MAX_QUEUE_SIZE |-> i] /\ capPc = "idle")
    /\ Len(outOffered) > MAX_QUEUE_SIZE =>
          output_buffer = SubSeq(outOffered, 1, MAX_QUEUE_SIZE)

\* ---- _send_loop with its timing ----

\* sleep_time = (FRAME_MS / 1000) - elapsed, without the one-tick shortfall
SleepTime_Short(elapsed) == FramePeriod - elapsed - 1

\* sleep_time = (FRAME_MS / 1000) - elapsed
SleepTime(elapsed) == FramePeriod - elapsed

\* while self.is_running: elapsed = time.time() - last_send; when sleep_time
\* is positive, time.sleep(sleep_time) begins
PaceCheck(t) ==
    /\ sendPc[t] = "while"
    /\ IF is_running
       THEN LET sleep_time == SleepTime(now - last_send[t]) IN
            /\ sendPc' = [sendPc EXCEPT ![t] = "pace"]
            /\ due' = [due EXCEPT ![t] = IF sleep_time > 0 THEN now + sleep_time ELSE now]
       ELSE /\ sendPc' = [sendPc EXCEPT ![t] = "done"]
            /\ due' = due
    /\ UNCHANGED <<now, last_send, startTime, sendTimes, skipped,
                   sendFrame, kaPc, sent, lifeVars, inVars, outVars, resVars>>

\* the sleep is over: get_input_frame, then codec.encode begins; it takes
\* up to MaxWork ticks and returns the frame or None
PaceTake(t) ==
    /\ sendPc[t] = "pace"
    /\ now = due[t]
    /\ LET f == get_input_frame(input_queue) IN
       IF f = 0
       THEN /\ sendPc' = [sendPc EXCEPT ![t] = "while"]
            /\ skipped' = [skipped EXCEPT ![t] = TRUE]
            /\ UNCHANGED <<sendFrame, input_queue, taken, due>>
       ELSE /\ input_queue' = Tail(input_queue)
            /\ taken' = taken + 1
            /\ \E encodeOk \in BOOLEAN, d \in 0..MaxWork :
                  IF encodeOk
                  THEN /\ sendPc' = [sendPc EXCEPT ![t] = "send"]
                       /\ sendFrame' = [sendFrame EXCEPT ![t] = f]
                       /\ due' = [due EXCEPT ![t] = now + d]
                       /\ skipped' = skipped
                  ELSE /\ sendPc' = [sendPc EXCEPT ![t] = "while"]
                       /\ skipped' = [skipped EXCEPT ![t] = TRUE]
                       /\ UNCHANGED <<sendFrame, due>>
    /\ UNCHANGED <<now, last_send, startTime, sendTimes,
                   kaPc, sent, offered, capPc, lifeVars, outVars, resVars>>

\* encode is over: self.ws.send(opus_frame, OPCODE_BINARY) is called and
\* succeeds; the call takes up to MaxWork ticks
PaceSend(t) ==
    /\ sendPc[t] = "send"
    /\ now = due[t]
    /\ sock = "connected"
    /\ sent' = Append(sent, sendFrame[t])
    /\ sendTimes' = [sendTimes EXCEPT ![t] = Append(@, now)]
    /\ sendFrame' = [sendFrame EXCEPT ![t] = 0]
    /\ sendPc' = [sendPc EXCEPT ![t] = "sent"]
    /\ \E d \in 0..MaxWork : due' = [due EXCEPT ![t] = now + d]
    /\ UNCHANGED <<now, last_send, startTime, skipped,
                   kaPc, lifeVars, inVars, outVars, resVars>>

\* self.ws.send raises: except Exception logs and breaks out of the loop
PaceSendFail(t) ==
    /\ sendPc[t] = "send"
    /\ now = due[t]
    /\ sendFrame' = [sendFrame EXCEPT ![t] = 0]
    /\ sendPc' = [sendPc EXCEPT ![t] = "done"]
    /\ UNCHANGED <<paceVars, kaPc, sent, lifeVars, inVars, outVars, resVars>>

\* ws.send has returned: last_send = time.time()
PaceSent(t) ==
    /\ sendPc[t] = "sent"
    /\ now = due[t]
    /\ last_send' = [last_send EXCEPT ![t] = now]
    /\ sendPc' = [sendPc EXCEPT ![t] = "while"]
    /\ UNCHANGED <<now, due, startTime, sendTimes, skipped,
                   sendFrame, kaPc, sent, lifeVars, inVars, outVars, resVars>>

\* the clock advances by one tick; a _send_loop thread neither idles between
\* two statements nor oversleeps
Tick ==
    /\ now < MaxTime
    /\ \A t \in Threads :
          /\ sendPc[t] # "while"
          /\ sendPc[t] \in {"pace", "send", "sent"} => now < due[t]
    /\ now' = now + 1
    /\ UNCHANGED <<last_send, due, startTime, sendTimes, skipped,
                   lifeVars, loopVars, inVars, outVars, resVars>>

\* The pacing of one _send_loop: the connection opens once, the device
\* delivers capture blocks at any time, the transport may report an error.
NextPace ==
    \/ RunLoop
    \/ OnOpen
    \/ OnError
    \/ InputCallback
    \/ InputCallbackResume
    \/ Tick
    \/ \E t \in Threads : PaceCheck(t)
    \/ \E t \in Threads : PaceTake(t)
    \/ \E t \in Threads : PaceSend(t)
    \/ \E t \in Threads : PaceSendFail(t)
    \/ \E t \in Threads : PaceSent(t)

SpecPace == Init /\ [][NextPace]_vars

\* C11: any two consecutive binary sends of one _send_loop are at least one
\* frame period apart, however many frames wait in the input queue.
C11_OneFramePerPeriod ==
    \A t \in Threads : \A i \in 1..(Len(sendTimes[t]) - 1) :
        sendTimes[t][i + 1] - sendTimes[t][i] >= FramePeriod

\* C11 witness: a loop has sent twice while a further frame was waiting
C11_Witness ==
    \E t \in Threads :
        /\ Len(sendTimes[t]) >= 2
        /\ input_queue # <<>>

\* C17: a _send_loop that has run for T ticks, has found a frame to send in
\* every iteration and still has one waiting, has sent floor(T / FramePeriod) frames, give or take one,
\* whatever time encode and send took.
C17_NoDrift ==
    \A t \in Threads :
        (/\ sendPc[t] \in {"while", "pace", "send", "sent"}
         /\ ~skipped[t]
         /\ input_queue # <<>>) =>
            LET T == now - startTime[t]
                n == Len(sendTimes[t])
            IN  /\ n >= (T \div FramePeriod) - 1
                /\ n <= (T \div FramePeriod) + 1

\* C12: while the connection is Open, an encode failure or a send failure in
\* one iteration of a _send_loop leaves that loop running.
C12_TransientErrorKeepsLoop ==
    [][\A t \in Threads :
          (/\ sock = "connected"
           /\ is_running
           /\ \/ SendLoopSendFail(t)
              \/ (SendLoopTake(t) /\ taken' = taken + 1 /\ sendFrame'[t] = 0))
          => sendPc'[t] \in {"while", "pace", "send"}]_vars

\* the text messages that are not well-formed recognized control messages
MalformedKinds == {"bad_json", "non_object", "tts_nostate"}

\* C13: handling a malformed text message lets no exception out of
\* _handle_control and changes neither is_running, nor the connection state,
\* nor a queue.
C13_MalformedControlIgnored ==
    [][(\E kind \in MalformedKinds : OnControlKind(kind))
       => (/\ raised' = raised
           /\ is_running' = is_running
           /\ sock' = sock
           /\ input_queue' = input_queue
           /\ output_buffer' = output_buffer)]_vars

\* C14: handling {"type": "tts", "state": "stop"} leaves the output buffer
\* empty, whatever it held, and leaves what was written to the playback
\* device as it was.
C14_StopClearsBuffer ==
    /\ [](stopHandled => output_buffer = <<>>)
    /\ [][OnControlKind("tts_stop") => played' = played]_vars

\* C14 witness: the stop message was handled after blocks had been buffered
\* and written
C14_Witness ==
    /\ stopHandled
    /\ played # <<>>

\* C16: _on_open leaves the retry counter of run() at zero.
C16_RetriesResetOnOpen ==
    [][OnOpen => retries' = 0]_vars

\* the decoded messages whose write did not fail, in arrival order
WrittenOf(ds) == SelectSeq(ds, LAMBDA k : k \notin writeFailed)

\* a step that handles a binary message whose decode fails
DecodeFailure == OnAudio /\ decoded' = decoded

\* C18 (as claimed): the blocks written to the playback device are exactly
\* the successfully decoded messages, in arrival order.
C18_WritesEqualDecoded ==
    played = decoded

\* C18 (amended): the blocks written to the playback device are exactly the
\* successfully decoded messages whose write did not fail, in arrival order;
\* a message whose decode fails causes no write and changes neither
\* is_running nor the connection state.
C18_WritesFollowDecodes ==
    /\ [](played = WrittenOf(decoded))
    /\ [][DecodeFailure =>
            (/\ played' = played
             /\ output_buffer' = output_buffer
             /\ is_running' = is_running
             /\ sock' = sock)]_vars

\* C18 witness: one message failed to decode, a later one was decoded and
\* written
C18_Witness ==
    /\ received > Len(decoded)
    /\ played # <<>>
    /\ played[Len(played)] > Len(played)

\* a step that uses the audio device: a new session is opened, the streams
\* are released, or play_output runs
AudioUse ==
    \/ OnOpen
    \/ releaseCount' # releaseCount
    \/ (OnAudio /\ decoded' # decoded)

\* C19: once AudioIO.release has run, no later step uses the audio device.
C19_NoUseAfterRelease ==
    [][releaseCount >= 1 => ~AudioUse]_vars

\* The send path across sessions: capture and the loop threads while the
\* transport connects, fails and connects again inside run_forever.
NextSessions ==
    \/ InputCallback
    \/ InputCallbackResume
    \/ OnOpen
    \/ OnError
    \/ OnClose
    \/ Reconnect
    \/ RunLoop
    \/ RunForeverReturn
    \/ Interrupt
    \/ LoopStep

SpecSessions == Init /\ [][NextSessions]_vars

\* the frames sent since the latest _on_open
SessionSent == SubSeq(sent, sessionStart + 1, Len(sent))

\* C15: while a session is Open, the frames sent in it are in capture order
\* without repetition (frame ids are capture sequence numbers).
C15_SentInCaptureOrder ==
    (is_running /\ sock = "connected") =>
        \A i \in 1..(Len(SessionSent) - 1) : SessionSent[i] < SessionSent[i + 1]

\* run() by itself: the main thread and the callbacks the transport makes on
\* it.  The main thread is not held up outside run_forever: the while
\* condition is evaluated and time.sleep(delay) returns.
NextRun ==
    \/ RunLoop
    \/ OnOpen
    \/ OnError
    \/ OnClose
    \/ Reconnect
    \/ RunForeverReturn
    \/ RunForeverRaise
    \/ SleepDone
    \/ Interrupt

SpecRun ==
    /\ Init
    /\ [][NextRun]_vars
    /\ WF_vars(RunLoop)
    /\ WF_vars(SleepDone)

\* run() has ended: it returned, gave up, or was interrupted
RunEnded == mainPc \in {"returned", "exhausted", "stopped"}

\* C20: run() invokes run_forever at most max_retries times; once a
\* run_forever call has returned normally run() has returned and starts no
\* further attempt; and when no run_forever call lasts for ever, run() ends.
C20_RunTerminates ==
    /\ [](attempts <= max_retries)
    /\ [][mainPc = "returned" => (mainPc' = "returned" /\ attempts' = attempts)]_vars
    /\ [][(mainPc = "run_forever" /\ mainPc' \notin {"run_forever", "sleep", "stopped"})
            => (mainPc' = "returned" /\ attempts' = attempts /\ retries' = retries)]_vars
    /\ ([]<>(mainPc # "run_forever")) => <>RunEnded

\* C20 witness: run() returned from the last permitted run_forever call
C20_Witness ==
    /\ mainPc = "returned"
    /\ attempts = max_retries

====
